---------------------------- MODULE Spec2Model ----------------------------
(***************************************************************************)
(* arbitrary-space: a bounded integer grid (Layout) holding Objects at     *)
(* Coordinates, src/src/lib.rs and src/src/coordinates.rs.                 *)
(*                                                                         *)
(* Machine integers keep their two's-complement behaviour at a reduced     *)
(* width: i64 is IntBits wide here, u64 likewise.  Arithmetic the source   *)
(* writes with + and * panics on overflow when the crate is built with     *)
(* overflow checks (the dev/test profile) and wraps when it is built       *)
(* without them (the release profile); `build` is that choice.             *)
(*                                                                         *)
(* Floating-point lengths and angles are kept as terms: a distance is the  *)
(* record of its radicand, a Length the record of the operands of the      *)
(* division and the multiplication that produce it.                        *)
(***************************************************************************)
EXTENDS Integers, Sequences, FiniteSets

VARIABLES build, coordinate_bound, dimension, objects, ret, panicked

vars == <<build, coordinate_bound, dimension, objects, ret, panicked>>

-----------------------------------------------------------------------------
(* Bounds of the model *)

\* width of i64 / u64 in the model
IntBits == 5
\* add_object is not offered once the Layout holds this many objects
MaxObjects == 2

Modulus == 2 ^ IntBits
MinInt == -(2 ^ (IntBits - 1))
MaxInt == 2 ^ (IntBits - 1) - 1
I64 == MinInt .. MaxInt

Builds == {"debug", "release"}

Abs(v) == IF v < 0 THEN -v ELSE v

\* two's-complement wrap of a mathematical integer into i64
Wrap(v) == ((v - MinInt) % Modulus) + MinInt

\* i64::overflowing_neg().0
overflowing_neg(v) == Wrap(-v)

\* `a + b` on i64: [panic, val]
CheckedAdd(b, x, y) ==
    IF x + y \in I64 THEN [panic |-> FALSE, val |-> x + y]
    ELSE IF b = "debug" THEN [panic |-> TRUE, val |-> 0]
    ELSE [panic |-> FALSE, val |-> Wrap(x + y)]

\* `a * b` on i64: [panic, val]
CheckedMul(b, x, y) ==
    IF x * y \in I64 THEN [panic |-> FALSE, val |-> x * y]
    ELSE IF b = "debug" THEN [panic |-> TRUE, val |-> 0]
    ELSE [panic |-> FALSE, val |-> Wrap(x * y)]

-----------------------------------------------------------------------------
(* Integer to float casts: round to nearest, ties to even, on `digits`     *)
(* significant bits.                                                       *)

F32_MANTISSA_DIGITS == 24
F64_MANTISSA_DIGITS == 53

RECURSIVE BitLen(_)
BitLen(n) == IF n = 0 THEN 0 ELSE 1 + BitLen(n \div 2)

ToFloat(digits, v) ==
    LET a == Abs(v)
        len == BitLen(a)
    IN  IF len <= digits THEN v
        ELSE LET e == len - digits
                 q == a \div (2 ^ e)
                 r == a % (2 ^ e)
                 half == 2 ^ (e - 1)
                 up == r > half \/ (r = half /\ q % 2 = 1)
                 m == (IF up THEN q + 1 ELSE q) * (2 ^ e)
             IN  IF v < 0 THEN -m ELSE m

as_f32(v) == ToFloat(F32_MANTISSA_DIGITS, v)
as_f64(v) == ToFloat(F64_MANTISSA_DIGITS, v)

-----------------------------------------------------------------------------
(* coordinates.rs *)

\* DefaultHasher::new() is SipHash with fixed keys: a fixed function of the
\* bytes written, which are the value at its type's width.  A fixed mixing
\* function of (width in bytes, value) onto u64 stands for it.
calculate_hash(bytes, t) ==
    LET u == t % Modulus
    IN  (u * u * 3 + u * 5 + bytes) % Modulus

\* [panic, val]: the u64 digest of (x, y, z)
generate_hash(b, x, y, z) ==
    LET ax == CheckedAdd(b, x, 1)
        ay == CheckedAdd(b, y, 2)
        az == CheckedAdd(b, z, 3)
    IN  IF ax.panic \/ ay.panic \/ az.panic
        THEN [panic |-> TRUE, val |-> 0]
        ELSE LET h_x == calculate_hash(8, ax.val)
                 h_y == calculate_hash(8, ay.val)
                 h_z == calculate_hash(8, az.val)
                 res == h_x + h_y + h_z
             IN  [panic |-> FALSE, val |-> calculate_hash(16, res)]

NoCoordinates == [x |-> 0, y |-> 0, z |-> 0, hash |-> 0]

\* Coordinates::new: [panic, val]
Coordinates_new(b, x, y, z) ==
    LET h == generate_hash(b, x, y, z)
    IN  IF h.panic THEN [panic |-> TRUE, val |-> NoCoordinates]
        ELSE [panic |-> FALSE, val |-> [x |-> x, y |-> y, z |-> z, hash |-> h.val]]

Pow2(v) == v * v

Coordinates_get_distance_unsquared_x(a, b) ==
    LET alpha == as_f32(a.x) - as_f32(b.x)
        beta == Pow2(as_f32(a.y) - as_f32(b.y))
        zeta == Pow2(as_f32(a.z) - as_f32(b.z))
    IN  [sqrt_of |-> alpha + beta + zeta]

\* Coordinates::get_distance: the f32 sqrt of the radicand it returns
Coordinates_get_distance(a, b) ==
    LET alpha == Pow2(as_f32(a.x) - as_f32(b.x))
        beta == Pow2(as_f32(a.y) - as_f32(b.y))
        zeta == Pow2(as_f32(a.z) - as_f32(b.z))
    IN  [sqrt_of |-> alpha + beta + zeta]

\* what #[derive(PartialEq)] would compare
Coordinates_eq_derived(a, b) ==
    a.x = b.x /\ a.y = b.y /\ a.z = b.z /\ a.hash = b.hash

\* impl PartialEq for Coordinates
Coordinates_eq(a, b) == a.x = b.x /\ a.y = b.y /\ a.z = b.z


-----------------------------------------------------------------------------
(* lib.rs *)

\* VisualAngle::angle_from_distance_size: the angle 2 * atan((size / 2) / distance)
angle_from_distance_size(distance, size) ==
    [two_atan_of |-> [half_of |-> size, over |-> distance]]

\* Shape::Sphere(size)
Sphere(size) == [kind |-> "Sphere", size |-> size]

\* Shape::get_visual_angle
get_visual_angle(shape, distance) ==
    angle_from_distance_size(distance, shape.size)

\* Object::new
Object_new(position, shape) == [position |-> position, shape |-> shape]

\* impl Default for Layout: the object list `..Default::default()` supplies
Default_objects == <<>>

\* Layout::new
Layout_new(bound, dim) ==
    [objects |-> Default_objects, coordinate_bound |-> bound, dimension |-> dim]

\* the Layout the variables hold
Self ==
    [objects |-> objects, coordinate_bound |-> coordinate_bound, dimension |-> dimension]

check_bound_exclusive(self, dimension_value) ==
    LET start == overflowing_neg(self.coordinate_bound)
        end == self.coordinate_bound
    IN  start < dimension_value /\ dimension_value < end

check_bound_upper_only(self, dimension_value) ==
    LET end == self.coordinate_bound
    IN  dimension_value <= end

\* Layout::check_bound
check_bound(self, dimension_value) ==
    LET start == overflowing_neg(self.coordinate_bound)
        end == self.coordinate_bound
    IN  start <= dimension_value /\ dimension_value <= end

add_object_stores_rejected(self, object) ==
    IF \/ ~check_bound(self, object.position.x)
       \/ ~check_bound(self, object.position.y)
       \/ ~check_bound(self, object.position.z)
    THEN [self |-> [self EXCEPT !.objects = Append(@, object)], result |-> FALSE]
    ELSE [self |-> [self EXCEPT !.objects = Append(@, object)], result |-> TRUE]

add_object_front(self, object) ==
    IF \/ ~check_bound(self, object.position.x)
       \/ ~check_bound(self, object.position.y)
       \/ ~check_bound(self, object.position.z)
    THEN [self |-> self, result |-> FALSE]
    ELSE [self |-> [self EXCEPT !.objects = <<object>> \o @], result |-> TRUE]

\* Layout::add_object: the Layout after the call and the value returned
add_object(self, object) ==
    IF \/ ~check_bound(self, object.position.x)
       \/ ~check_bound(self, object.position.y)
       \/ ~check_bound(self, object.position.z)
    THEN [self |-> self, result |-> FALSE]
    ELSE [self |-> [self EXCEPT !.objects = Append(@, object)], result |-> TRUE]

NoLength == [dimension |-> 0, divided_by |-> 0, times |-> [sqrt_of |-> 0]]

\* Layout::get_distance: [panic, val], val the Length
\* (dimension / divided_by) * times
Layout_get_distance(self, b, position, comparison) ==
    LET twice == CheckedMul(b, self.coordinate_bound, 2)
    IN  IF twice.panic THEN [panic |-> TRUE, val |-> NoLength]
        ELSE [panic |-> FALSE,
              val |-> [dimension |-> self.dimension,
                       divided_by |-> as_f64(twice.val),
                       times |-> Coordinates_get_distance(position, comparison)]]

\* the closure of observe_layout_objects, applied to one object
ObservedObject(self, b, origin, object) ==
    LET distance == Layout_get_distance(self, b, origin, object.position)
    IN  [panic |-> distance.panic,
         val |-> [shape |-> object.shape,
                  visual_angle |-> get_visual_angle(object.shape, distance.val),
                  coordinates |-> object.position,
                  observed_from |-> origin]]

\* Layout::observe_layout_objects: [panic, val], val the Vec<ObservedObject>
observe_layout_objects(self, b, origin) ==
    LET n == Len(self.objects)
        each == [i \in 1 .. n |-> ObservedObject(self, b, origin, self.objects[i])]
    IN  IF \E i \in 1 .. n : each[i].panic
        THEN [panic |-> TRUE, val |-> <<>>]
        ELSE [panic |-> FALSE, val |-> [i \in 1 .. n |-> each[i].val]]


-----------------------------------------------------------------------------
(* Inputs *)

\* coordinate_bound values a Layout is constructed with
BoundProbe == {MinInt, -1, 0, 5, MaxInt \div 2 + 1}

\* dimension values, in kilometres
Dimensions == {1000, 3844000}

\* Sphere sizes, in kilometres
Shapes == {Sphere(1000), Sphere(3474)}

\* axis values at and around the edges of the grid of bound B
AxisProbe(B) ==
    {0, B, overflowing_neg(B), B + 1, overflowing_neg(B) - 1} \cap I64

PositionProbe(B) ==
    UNION {{<<v, 0, 0>>, <<0, v, 0>>, <<0, 0, v>>, <<v, v, v>>} : v \in AxisProbe(B)}

OriginProbe == {<<0, 0, 0>>, <<1, 0, 0>>}

\* the Coordinates the build constructs from the triples
Constructed(b, triples) ==
    {Coordinates_new(b, t[1], t[2], t[3]).val :
        t \in {u \in triples : ~Coordinates_new(b, u[1], u[2], u[3]).panic}}

-----------------------------------------------------------------------------
(* The Layout as a state machine *)

Init ==
    /\ build \in Builds
    /\ \E B \in BoundProbe, D \in Dimensions :
          LET layout == Layout_new(B, D)
          IN  /\ objects = layout.objects
              /\ coordinate_bound = layout.coordinate_bound
              /\ dimension = layout.dimension
    /\ ret = [op |-> "new"]
    /\ panicked = FALSE

AddObject(position, shape) ==
    /\ ~panicked
    /\ Len(objects) < MaxObjects
    /\ LET object == Object_new(position, shape)
           r == add_object(Self, object)
       IN  /\ objects' = r.self.objects
           /\ coordinate_bound' = r.self.coordinate_bound
           /\ dimension' = r.self.dimension
           /\ ret' = [op |-> "add_object", object |-> object, result |-> r.result]
    /\ UNCHANGED <<build, panicked>>

ObserveDraining(origin) ==
    /\ ~panicked
    /\ LET r == observe_layout_objects(Self, build, origin)
       IN  /\ ret' = [op |-> "observe_layout_objects", origin |-> origin,
                      panic |-> r.panic, result |-> r.val]
           /\ panicked' = r.panic
    /\ objects' = <<>>
    /\ UNCHANGED <<build, coordinate_bound, dimension>>

\* a call of observe_layout_objects(&self, origin)
Observe(origin) ==
    /\ ~panicked
    /\ LET r == observe_layout_objects(Self, build, origin)
       IN  /\ ret' = [op |-> "observe_layout_objects", origin |-> origin,
                      panic |-> r.panic, result |-> r.val]
           /\ panicked' = r.panic
    /\ UNCHANGED <<build, coordinate_bound, dimension, objects>>

Next ==
    \/ \E position \in Constructed(build, PositionProbe(coordinate_bound)),
          shape \in Shapes : AddObject(position, shape)
    \/ \E origin \in Constructed(build, OriginProbe) : Observe(origin)

Spec == Init /\ [][Next]_vars


-----------------------------------------------------------------------------
(* The pure functions, applied to inputs *)

\* coordinate_bound values get_distance is applied under
PureBoundProbe == {MinInt, -1, 0, 1, 5, MaxInt \div 2, MaxInt \div 2 + 1, MaxInt}

\* axis values Coordinates::new is applied to
PureAxisProbe == {MinInt, -1, 0, 1, 5, MaxInt - 2, MaxInt - 1, MaxInt}

NewProbe == PureAxisProbe \X PureAxisProbe \X PureAxisProbe

\* the triples pairs of Coordinates are built from
PairAxisProbe == {0, 1, 5}

PairProbe == PairAxisProbe \X PairAxisProbe \X PairAxisProbe

PureInit ==
    /\ build \in Builds
    /\ \E B \in PureBoundProbe, D \in Dimensions :
          LET layout == Layout_new(B, D)
          IN  /\ objects = layout.objects
              /\ coordinate_bound = layout.coordinate_bound
              /\ dimension = layout.dimension
    /\ ret = [op |-> "new"]
    /\ panicked = FALSE

\* each behaviour applies one function to one input
Fresh == ret.op = "new" /\ ~panicked

\* Coordinates::new(x, y, z)
CallCoordinatesNew(x, y, z) ==
    /\ Fresh
    /\ LET r == Coordinates_new(build, x, y, z)
       IN  /\ ret' = [op |-> "Coordinates_new", x |-> x, y |-> y, z |-> z,
                      panic |-> r.panic, val |-> r.val]
           /\ panicked' = r.panic
    /\ UNCHANGED <<build, coordinate_bound, dimension, objects>>

\* a == b, both from Coordinates::new
CallEq(a, b) ==
    /\ Fresh
    /\ ret' = [op |-> "eq", a |-> a, b |-> b, from_new |-> TRUE,
               result |-> Coordinates_eq(a, b)]
    /\ UNCHANGED <<build, coordinate_bound, dimension, objects, panicked>>

\* a == Coordinates { hash, ..a }: the fields are pub
CallEqLiteral(a, hash) ==
    /\ Fresh
    /\ LET b == [a EXCEPT !.hash = hash]
       IN  ret' = [op |-> "eq", a |-> a, b |-> b, from_new |-> FALSE,
                   result |-> Coordinates_eq(a, b)]
    /\ UNCHANGED <<build, coordinate_bound, dimension, objects, panicked>>

\* self.get_distance(position, comparison)
CallGetDistance(position, comparison) ==
    /\ Fresh
    /\ LET r == Layout_get_distance(Self, build, position, comparison)
       IN  /\ ret' = [op |-> "get_distance", position |-> position,
                      comparison |-> comparison, panic |-> r.panic, val |-> r.val]
           /\ panicked' = r.panic
    /\ UNCHANGED <<build, coordinate_bound, dimension, objects>>

PureNext ==
    \/ \E t \in NewProbe : CallCoordinatesNew(t[1], t[2], t[3])
    \/ \E a \in Constructed(build, PairProbe), b \in Constructed(build, PairProbe) :
          CallEq(a, b)
    \/ \E a \in Constructed(build, PairProbe) :
          \E hash \in {a.hash, (a.hash + 1) % Modulus} : CallEqLiteral(a, hash)
    \/ \E p \in Constructed(build, PairProbe), q \in Constructed(build, PairProbe) :
          CallGetDistance(p, q)

PureSpec == PureInit /\ [][PureNext]_vars


-----------------------------------------------------------------------------
(* Properties of the Layout (Spec) *)

\* -B <= v <= B over the integers
WithinBound(B, v) == -B <= v /\ v <= B

PositionWithinBound(B, c) ==
    WithinBound(B, c.x) /\ WithinBound(B, c.y) /\ WithinBound(B, c.z)

IsPrefix(s, t) == Len(s) <= Len(t) /\ \A i \in 1 .. Len(s) : s[i] = t[i]

\* C1: add_object returns true if and only if each of the object's three axes
\* lies in -coordinate_bound .. coordinate_bound, both ends included.
C1_AddObjectIffWithinBound ==
    ret.op = "add_object" =>
        (ret.result <=> PositionWithinBound(coordinate_bound, ret.object.position))

\* C1, amended: when coordinate_bound is not the least i64, add_object returns
\* true if and only if each of the object's three axes lies in
\* -coordinate_bound .. coordinate_bound, both ends included.
C1_AddObjectIffWithinBound_Amended ==
    (ret.op = "add_object" /\ coordinate_bound # MinInt) =>
        (ret.result <=> PositionWithinBound(coordinate_bound, ret.object.position))

\* an object with an axis on the positive edge of the grid is accepted
C1_Witness ==
    /\ ret.op = "add_object"
    /\ ret.result
    /\ coordinate_bound > 0
    /\ ret.object.position.x = coordinate_bound

\* C2: a call of add_object that returns false leaves objects, coordinate_bound
\* and dimension as they were; one that returns true appends exactly its object
\* at the end of objects and leaves coordinate_bound and dimension as they were.
C2_AddObjectEffect ==
    [][ret'.op = "add_object" =>
          /\ coordinate_bound' = coordinate_bound
          /\ dimension' = dimension
          /\ IF ret'.result
             THEN objects' = Append(objects, ret'.object)
             ELSE objects' = objects]_vars

\* a rejected add_object on a Layout that already stores an object
C2_Witness ==
    ret.op = "add_object" /\ ~ret.result /\ Len(objects) = 1

\* C3: every stored Object's position has all three axes in
\* -coordinate_bound .. coordinate_bound.
C3_StoredWithinBound ==
    \A i \in 1 .. Len(objects) :
        PositionWithinBound(coordinate_bound, objects[i].position)

\* C3, amended: when coordinate_bound is not the least i64, every stored
\* Object's position has all three axes in -coordinate_bound .. coordinate_bound.
C3_StoredWithinBound_Amended ==
    coordinate_bound # MinInt =>
        \A i \in 1 .. Len(objects) :
            PositionWithinBound(coordinate_bound, objects[i].position)

\* two stored objects, the later one on the negative edge of the grid
C3_Witness ==
    /\ Len(objects) = 2
    /\ coordinate_bound > 0
    /\ objects[2].position.y = -coordinate_bound

\* C4: on a Layout of positive coordinate_bound,
\* observe_layout_objects(origin) returns one record per stored object, in
\* insertion order, each with that object's position and shape and with origin.
C4_ObserveReturnsEveryObject ==
    (ret.op = "observe_layout_objects" /\ coordinate_bound > 0) =>
        /\ ~ret.panic
        /\ Len(ret.result) = Len(objects)
        /\ \A i \in 1 .. Len(objects) :
              /\ ret.result[i].coordinates = objects[i].position
              /\ ret.result[i].shape = objects[i].shape
              /\ ret.result[i].observed_from = ret.origin

\* C5: observe_layout_objects leaves objects, coordinate_bound and dimension as
\* they were, and a call that follows a call with the same origin returns what
\* that call returned.
C5_ObserveIsPureRead ==
    [][ret'.op = "observe_layout_objects" =>
          /\ objects' = objects
          /\ coordinate_bound' = coordinate_bound
          /\ dimension' = dimension
          /\ (/\ ret.op = "observe_layout_objects"
              /\ ret.origin = ret'.origin
              /\ ~ret.panic /\ ~ret'.panic) => ret'.result = ret.result]_vars

\* an observation that returned records of a populated Layout
C5_Witness ==
    /\ ret.op = "observe_layout_objects"
    /\ ~ret.panic
    /\ Len(objects) = 2
    /\ Len(ret.result) = 2

\* C6: objects starts empty, and across every step the objects before the step
\* are a prefix of the objects after it.
C6_GrowsByAppending ==
    /\ objects = <<>>
    /\ [][IsPrefix(objects, objects')]_vars

\* two different objects stored one after the other
C6_Witness ==
    Len(objects) = 2 /\ objects[1] # objects[2]


-----------------------------------------------------------------------------
(* Properties of the pure functions (PureSpec) *)

SameAxes(a, b) == a.x = b.x /\ a.y = b.y /\ a.z = b.z

\* the squared Euclidean distance over the integers
SquaredDistance(a, b) ==
    (a.x - b.x) * (a.x - b.x) + (a.y - b.y) * (a.y - b.y) + (a.z - b.z) * (a.z - b.z)

\* C7: Coordinates::new(x, y, z) returns a Coordinates for every i64 triple.
C7_NewIsTotal ==
    ret.op = "Coordinates_new" => ~ret.panic

\* C8: under a positive coordinate_bound, get_distance(p, q) returns the Length
\* (dimension / (2 * coordinate_bound)) * the Euclidean distance of p and q.
C8_DistanceIsScaledEuclidean ==
    (ret.op = "get_distance" /\ coordinate_bound > 0) =>
        /\ ~ret.panic
        /\ ret.val.dimension = dimension
        /\ ret.val.divided_by = 2 * coordinate_bound
        /\ ret.val.times.sqrt_of = SquaredDistance(ret.position, ret.comparison)

\* C9: get_distance(p, q) and get_distance(q, p) end alike and return the same
\* Length.
C9_DistanceIsSymmetric ==
    ret.op = "get_distance" =>
        LET swapped == Layout_get_distance(Self, build, ret.comparison, ret.position)
        IN  swapped.panic = ret.panic /\ swapped.val = ret.val

\* a distance returned for two Coordinates that differ on x
C9_Witness ==
    /\ ret.op = "get_distance"
    /\ ~ret.panic
    /\ ret.position.x < ret.comparison.x

\* C10: a == b exactly when the two agree on x, y and z, whatever their hash
\* fields hold; two Coordinates from Coordinates::new that agree on x, y and z
\* carry the same hash.
C10_EqualityByAxes ==
    ret.op = "eq" =>
        /\ ret.result <=> SameAxes(ret.a, ret.b)
        /\ (ret.from_new /\ SameAxes(ret.a, ret.b)) => ret.a.hash = ret.b.hash

\* two Coordinates with the same axes and different hash fields compare equal
C10_Witness ==
    /\ ret.op = "eq"
    /\ ret.result
    /\ ret.a.hash # ret.b.hash

=============================================================================
